---- MODULE Spec2Model ----
(***************************************************************************)
(* Rec-Writer: the letter-assembly engine.                                 *)
(*                                                                         *)
(*   WritingSampleAnalyzer  (services/writingSampleAnalyzer.ts)            *)
(*       analyzeSample, parseAnalysisResponse, storeAndAppendCategories,   *)
(*       getCategories, clearCategories, exportCategories                  *)
(*   ContentGenerator       (services/contentGenerator.ts)                 *)
(*       generateContent, categorizeTemplate, generateLetter, ...          *)
(*   App.generateContent    (App.tsx)                                      *)
(*                                                                         *)
(* Strings are sequences of one-character strings, so that trim(),         *)
(* replace(/\s+/g,'_'), startsWith() and the sentence regex are computed   *)
(* as the code computes them.                                              *)
(***************************************************************************)
EXTENDS Integers, Sequences, FiniteSets, TLC

VARIABLES
    localStorage,      \* window.localStorage: key -> stored string
    now,               \* Date.now()
    db,                \* IndexedDB object store 'userInputs': id -> record
    ui,                \* App state: isLoading, statusMessage, generatedContent
    gen,               \* the generation request in progress (ContentGenerator)
    analyses,          \* per open page of the app: its analyzeSample in progress
    last               \* the operation that ended last and its outcome

vars == <<localStorage, now, db, ui, gen, analyses, last>>

(***************************************************************************)
(* Bounds of the model.                                                    *)
(***************************************************************************)
MaxBatch == 2          \* sentences in one model answer (all categories together)
MaxClock == 1          \* Date.now() takes the values 0..MaxClock

(***************************************************************************)
(* Strings.                                                                *)
(***************************************************************************)
IsSpace(ch) == ch = " "

RECURSIVE TrimStart(_)
TrimStart(s) ==
    IF s = <<>> THEN <<>>
    ELSE IF IsSpace(Head(s)) THEN TrimStart(Tail(s)) ELSE s

RECURSIVE TrimEnd(_)
TrimEnd(s) ==
    IF s = <<>> THEN <<>>
    ELSE IF IsSpace(s[Len(s)]) THEN TrimEnd(SubSeq(s, 1, Len(s) - 1)) ELSE s

\* String.prototype.trim
Trim(s) == TrimEnd(TrimStart(s))

\* String.prototype.startsWith
StartsWith(s, prefix) ==
    /\ Len(prefix) <= Len(s)
    /\ SubSeq(s, 1, Len(prefix)) = prefix

\* teacherName.replace(/\s+/g, '_'): every run of whitespace becomes one '_'
RECURSIVE ReplaceSpaces(_)
ReplaceSpaces(s) ==
    IF s = <<>> THEN <<>>
    ELSE IF IsSpace(Head(s))
         THEN <<"_">> \o ReplaceSpaces(TrimStart(s))
         ELSE <<Head(s)>> \o ReplaceSpaces(Tail(s))

\* the decimal text of a timestamp inside a template literal
TsText(n) == <<"0", "1", "2", "3", "4", "5", "6", "7", "8", "9">>[n + 1]

(***************************************************************************)
(* AnalysisCategories.                                                     *)
(***************************************************************************)
\* the key order of the object literal, which Object.entries follows
CategoryOrder ==
    <<"introduction_context", "endorsement", "commentary", "qualities",
      "further_discussion">>

Categories == {CategoryOrder[i] : i \in 1..Len(CategoryOrder)}

EmptyCategories == [c \in Categories |-> <<>>]

\* a JSON array element that is not a string (a number, null, an object)
NonString == <<"#7">>

IsString(v) == v /= NonString

RECURSIVE SumLen(_, _)
SumLen(cats, i) ==
    IF i > Len(CategoryOrder) THEN 0
    ELSE Len(cats[CategoryOrder[i]]) + SumLen(cats, i + 1)

\* total number of sentences of an AnalysisCategories value
Total(cats) == SumLen(cats, 1)

Range(s) == {s[i] : i \in 1..Len(s)}

\* every entry of the five arrays, categories in key order
RECURSIVE Flatten(_, _)
Flatten(cats, i) ==
    IF i > Len(CategoryOrder) THEN <<>>
    ELSE cats[CategoryOrder[i]] \o Flatten(cats, i + 1)

(***************************************************************************)
(* localStorage keys and values.                                           *)
(***************************************************************************)
getCategoryStorageKey(teacherName) ==
    <<"categorized_sentences_">> \o ReplaceSpaces(teacherName)

sampleKeyPrefix(teacherName) == <<"sample_">> \o ReplaceSpaces(teacherName)

sampleKey(teacherName, ts) == sampleKeyPrefix(teacherName) \o <<"_", TsText(ts)>>

\* JSON.stringify of an AnalysisCategories whose entries are all strings, and
\* JSON.parse of that text; raw sample text is stored as it is
JSONStringify(cats) == [json |-> TRUE, text |-> cats]
RawText(s) == [json |-> FALSE, text |-> s]
JSONParse(item) == item.text

HasItem(ls, key) == key \in DOMAIN ls
SetItem(ls, key, value) == [k \in DOMAIN ls \cup {key} |-> IF k = key THEN value ELSE ls[k]]
RemoveItem(ls, key) == [k \in DOMAIN ls \ {key} |-> ls[k]]

(***************************************************************************)
(* Sentences of a text: content.match(/[^.!?]+[.!?]+/g) || [].             *)
(* A sentence is a maximal run of non-terminators followed by a maximal    *)
(* run of terminators; terminators met before any other character, and a   *)
(* tail without a terminator, belong to no sentence.                       *)
(***************************************************************************)
IsTerminator(ch) == ch \in {".", "!", "?"}

RECURSIVE MatchSentences(_, _, _, _)
\* cur: the match being built; inEnd: cur already holds a terminator
MatchSentences(text, i, cur, inEnd) ==
    IF i > Len(text)
    THEN IF inEnd THEN <<cur>> ELSE <<>>
    ELSE IF IsTerminator(text[i])
         THEN IF cur = <<>>
              THEN MatchSentences(text, i + 1, <<>>, FALSE)
              ELSE MatchSentences(text, i + 1, Append(cur, text[i]), TRUE)
         ELSE IF inEnd
              THEN <<cur>> \o MatchSentences(text, i + 1, <<text[i]>>, FALSE)
              ELSE MatchSentences(text, i + 1, Append(cur, text[i]), FALSE)

SplitSentences(text) == MatchSentences(text, 1, <<>>, FALSE)

(***************************************************************************)
(* The model call, queryService.generateText, as the analyzer sees it.     *)
(*   kind "fail"   the call throws (transport error, HTTP status not ok)   *)
(*   kind "notext" the call returns and response.text is undefined         *)
(*   kind "json"   the text holds a {...} span that JSON.parse accepts;    *)
(*                 obj maps each of the five keys to an array or to        *)
(*                 NotArray (key missing, or not an array)                 *)
(*   kind "text"   the text holds no parseable {...} span; lines are its   *)
(*                 lines: header names the category of a header line ("" *)
(*                 for any other line) and text is the line                *)
(***************************************************************************)
NotArray == << <<"#notarray">> >>

IsArray(v) == v /= NotArray

FailResponse == [kind |-> "fail", obj |-> EmptyCategories, lines |-> <<>>]
NoTextResponse == [kind |-> "notext", obj |-> EmptyCategories, lines |-> <<>>]
JsonResponse(obj) == [kind |-> "json", obj |-> obj, lines |-> <<>>]
TextResponse(lines) == [kind |-> "text", obj |-> EmptyCategories, lines |-> lines]

HeaderLine(c) == [header |-> c, text |-> <<>>]
PlainLine(s) == [header |-> "", text |-> s]

\* cleanedLine = trimmedLine.replace(/^[bullet\-*]\s*/, '').trim()
CleanLine(trimmedLine) ==
    IF trimmedLine /= <<>> /\ Head(trimmedLine) \in {"*", "-"}
    THEN Trim(Tail(trimmedLine))
    ELSE Trim(trimmedLine)

\* one round of the loop over responseText.split('\n')
ScanLine(acc, line) ==
    LET trimmedLine == Trim(line.text) IN
    IF line.header /= ""
    THEN [acc EXCEPT !.currentCategory = line.header]
    ELSE IF /\ acc.currentCategory /= ""
            /\ Len(trimmedLine) > 0
            /\ ~StartsWith(trimmedLine, <<"-">>)
            /\ ~StartsWith(trimmedLine, <<"#">>)
            /\ Len(CleanLine(trimmedLine)) > 0
         THEN [acc EXCEPT !.result[acc.currentCategory] =
                              Append(@, CleanLine(trimmedLine))]
         ELSE acc

RECURSIVE ScanLines(_, _, _)
ScanLines(acc, lines, i) ==
    IF i > Len(lines) THEN acc
    ELSE ScanLines(ScanLine(acc, lines[i]), lines, i + 1)

\* the fallback of parseAnalysisResponse
FallbackParse(lines) ==
    ScanLines([currentCategory |-> "", result |-> EmptyCategories], lines, 1).result

\* CoerceObject reading 'commentary' from the key 'endorsement'
CoerceObjectWrongKey(obj) ==
    [c \in Categories |->
        LET k == IF c = "commentary" THEN "endorsement" ELSE c
        IN  IF IsArray(obj[k]) THEN obj[k] ELSE <<>>]

\* the JSON branch: Array.isArray(parsedData.k) ? parsedData.k : []
CoerceObject(obj) == [c \in Categories |-> IF IsArray(obj[c]) THEN obj[c] ELSE <<>>]

\* parseAnalysisResponse(response.text): [threw, value]
parseAnalysisResponse(response) ==
    CASE response.kind = "notext" -> [threw |-> TRUE, value |-> EmptyCategories]
      [] response.kind = "json" -> [threw |-> FALSE, value |-> CoerceObject(response.obj)]
      [] OTHER -> [threw |-> FALSE, value |-> FallbackParse(response.lines)]

(***************************************************************************)
(* The Category Store (WritingSampleAnalyzer over localStorage).           *)
(***************************************************************************)
\* getCategories(teacherName)
getCategories(ls, teacherName) ==
    IF HasItem(ls, getCategoryStorageKey(teacherName))
    THEN JSONParse(ls[getCategoryStorageKey(teacherName)])
    ELSE EmptyCategories

\* existingSentences: sentence.trim() of every stored sentence
ExistingSentences(cats) == {Trim(s) : s \in Range(Flatten(cats, 1))}

\* AppendSentence that empties the category when a sentence comes again
AppendSentenceRestart(acc, category, sentence) ==
    IF Trim(sentence) \in acc.existingSentences
    THEN [acc EXCEPT !.mergedCategories[category] = <<>>]
    ELSE [acc EXCEPT !.mergedCategories[category] = Append(@, Trim(sentence)),
                     !.existingSentences = @ \cup {Trim(sentence)}]

\* AppendSentence without the existingSentences.has(trimmed) test
AppendSentenceAlways(acc, category, sentence) ==
    [acc EXCEPT !.mergedCategories[category] = Append(@, Trim(sentence)),
                !.existingSentences = @ \cup {Trim(sentence)}]

\* AppendSentence without existingSentences.add(trimmed)
AppendSentenceNoAdd(acc, category, sentence) ==
    IF Trim(sentence) \in acc.existingSentences
    THEN acc
    ELSE [acc EXCEPT !.mergedCategories[category] = Append(@, Trim(sentence))]

\* the body of the inner forEach: one sentence of the new batch
AppendSentence(acc, category, sentence) ==
    LET trimmed == Trim(sentence) IN
    IF trimmed \in acc.existingSentences
    THEN acc
    ELSE [acc EXCEPT !.mergedCategories[category] = Append(@, trimmed),
                     !.existingSentences = @ \cup {trimmed}]

RECURSIVE AppendCategory(_, _, _, _)
\* sentences.forEach(...) for one category; sentence.trim() throws on a
\* value that is not a string and the forEach is left there
AppendCategory(acc, category, sentences, i) ==
    IF acc.threw \/ i > Len(sentences) THEN acc
    ELSE IF ~IsString(sentences[i])
         THEN [acc EXCEPT !.threw = TRUE]
         ELSE AppendCategory(AppendSentence(acc, category, sentences[i]),
                             category, sentences, i + 1)

RECURSIVE AppendCategories(_, _, _)
\* Object.entries(newCategories).forEach(...)
AppendCategories(acc, newCategories, k) ==
    IF acc.threw \/ k > Len(CategoryOrder) THEN acc
    ELSE AppendCategories(
             AppendCategory(acc, CategoryOrder[k], newCategories[CategoryOrder[k]], 1),
             newCategories, k + 1)

\* a variant that merges into an empty store
MergeCategoriesFresh(existingCategories, newCategories) ==
    AppendCategories([threw |-> FALSE,
                      mergedCategories |-> EmptyCategories,
                      existingSentences |-> ExistingSentences(EmptyCategories)],
                     newCategories, 1)

\* the merge of storeAndAppendCategories: [threw, mergedCategories, ...]
MergeCategories(existingCategories, newCategories) ==
    AppendCategories([threw |-> FALSE,
                      mergedCategories |-> existingCategories,
                      existingSentences |-> ExistingSentences(existingCategories)],
                     newCategories, 1)

\* a variant that writes the item after every sentence it appended
storeAndAppendCategoriesEager(ls, newCategories, teacherName, sampleContent, ts) ==
    LET m == MergeCategories(getCategories(ls, teacherName), newCategories) IN
    IF m.threw
    THEN SetItem(ls, getCategoryStorageKey(teacherName), JSONStringify(m.mergedCategories))
    ELSE SetItem(SetItem(ls, getCategoryStorageKey(teacherName),
                         JSONStringify(m.mergedCategories)),
                 sampleKey(teacherName, ts), RawText(sampleContent))

\* storeAndAppendCategories(newCategories, teacherName, sampleContent): the
\* localStorage it leaves. An exception inside is caught and logged, and
\* nothing has been written by then.
storeAndAppendCategories(ls, newCategories, teacherName, sampleContent, ts) ==
    LET m == MergeCategories(getCategories(ls, teacherName), newCategories) IN
    IF m.threw THEN ls
    ELSE SetItem(SetItem(ls, getCategoryStorageKey(teacherName),
                         JSONStringify(m.mergedCategories)),
                 sampleKey(teacherName, ts), RawText(sampleContent))

RemoveAt(s, i) == SubSeq(s, 1, i - 1) \o SubSeq(s, i + 1, Len(s))

RECURSIVE ClearLoop(_, _, _)
\* for (let i = 0; i < localStorage.length; i++) { key = localStorage.key(i);
\*   if (key.startsWith(prefix)) localStorage.removeItem(key) }
\* keys: the keys in the order localStorage.key() gives them; i counts from 1
ClearLoop(keys, i, prefix) ==
    IF i > Len(keys) THEN keys
    ELSE IF StartsWith(keys[i], prefix)
         THEN ClearLoop(RemoveAt(keys, i), i + 1, prefix)
         ELSE ClearLoop(keys, i + 1, prefix)

\* the sequences that list every element of S once
Orderings(S) ==
    {f \in [1..Cardinality(S) -> S] : \A i, j \in 1..Cardinality(S) : i /= j => f[i] /= f[j]}

\* clearCategories(teacherName), the keys being enumerated in the order keyOrder
clearCategories(ls, teacherName, keyOrder) ==
    LET kept == Range(ClearLoop(keyOrder, 1, sampleKeyPrefix(teacherName)))
    IN  [k \in kept |-> ls[k]]

(***************************************************************************)
(* IndexedDB 'userInputs' (utils/indexedDBStorage.ts): id -> record.       *)
(***************************************************************************)
\* saveUserInput: store.put(input) replaces the record of the same id
saveUserInput(dbv, id, record) ==
    [k \in DOMAIN dbv \cup {id} |-> IF k = id THEN record ELSE dbv[k]]

\* saveAnalysisToDatabase(analysis, originalSample, teacherName); the JSON of
\* the analysis kept in 'content' is read by nothing and is left out
saveAnalysisToDatabase(dbv, teacherName, ts) ==
    saveUserInput(dbv, <<"analysis-", TsText(ts)>>,
                  [type |-> "sample-analysis",
                   teacherName |-> teacherName,
                   content |-> <<>>,
                   originalSampleId |-> <<"sample-", TsText(ts)>>])

(***************************************************************************)
(* analyzeSample(sample, teacherName), the model call answering `response`:*)
(* whether it throws, the value it resolves to, and the localStorage and   *)
(* database it leaves.                                                     *)
(***************************************************************************)
analyzeSample(ls, dbv, ts, sample, teacherName, response) ==
    LET parsed == parseAnalysisResponse(response) IN
    IF response.kind = "fail" \/ parsed.threw
    THEN [threw |-> TRUE, value |-> EmptyCategories, ls |-> ls, db |-> dbv]
    ELSE [threw |-> FALSE,
          value |-> parsed.value,
          ls |-> storeAndAppendCategories(ls, parsed.value, teacherName, sample, ts),
          db |-> saveAnalysisToDatabase(dbv, teacherName, ts)]

(***************************************************************************)
(* Pattern Extractor (ContentGenerator.extractCommonPatterns and           *)
(* areSentencesSimilar).                                                   *)
(***************************************************************************)
UpperCase == <<"A", "B", "C", "D", "E", "F", "G", "H", "I", "J", "K", "L", "M", "N", "O", "P", "Q", "R", "S", "T", "U", "V", "W", "X", "Y", "Z">>
LowerCase == <<"a", "b", "c", "d", "e", "f", "g", "h", "i", "j", "k", "l", "m", "n", "o", "p", "q", "r", "s", "t", "u", "v", "w", "x", "y", "z">>

LowerChar(ch) ==
    IF \E i \in 1..Len(UpperCase) : UpperCase[i] = ch
    THEN LowerCase[CHOOSE i \in 1..Len(UpperCase) : UpperCase[i] = ch]
    ELSE ch

\* String.prototype.toLowerCase
ToLowerCase(s) == [i \in 1..Len(s) |-> LowerChar(s[i])]

\* lower.indexOf(phrase) !== -1
Contains(s, phrase) ==
    \E i \in 1..(Len(s) - Len(phrase) + 1) : SubSeq(s, i, i + Len(phrase) - 1) = phrase

IsPunctuation(ch) == ch \in {".", ",", "?", "!", ";", ":", "(", ")", "\"", "'"}

RECURSIVE SplitWords(_, _, _)
\* s.split(/\s+/), the empty pieces left out (the length filter drops them)
SplitWords(s, i, cur) ==
    IF i > Len(s) THEN (IF cur = <<>> THEN <<>> ELSE <<cur>>)
    ELSE IF IsSpace(s[i])
         THEN (IF cur = <<>> THEN <<>> ELSE <<cur>>) \o SplitWords(s, i + 1, <<>>)
         ELSE SplitWords(s, i + 1, Append(cur, s[i]))

IsMeaningful(w) == Len(w) > 3
NotPunctuation(ch) == ~IsPunctuation(ch)

\* tokenizeSentence
tokenizeSentence(s) ==
    SelectSeq(SplitWords(SelectSeq(ToLowerCase(s), NotPunctuation), 1, <<>>), IsMeaningful)

RECURSIVE SumOfLengths(_, _)
SumOfLengths(sentences, i) ==
    IF i > Len(sentences) THEN 0
    ELSE Len(sentences[i]) + SumOfLengths(sentences, i + 1)

\* WithinLengthBand without the length test
WithinLengthBandAny(s, sum, n) == TRUE

\* lenRatio >= 0.7 && lenRatio <= 1.3, lenRatio = s.length / avgLength and
\* avgLength = sum / n, in whole numbers
WithinLengthBand(s, sum, n) ==
    /\ 10 * Len(s) * n >= 7 * sum
    /\ 10 * Len(s) * n <= 13 * sum

RECURSIVE FilterByLength(_, _, _, _)
FilterByLength(sentences, i, sum, n) ==
    IF i > Len(sentences) THEN <<>>
    ELSE (IF WithinLengthBand(sentences[i], sum, n) THEN <<sentences[i]>> ELSE <<>>)
             \o FilterByLength(sentences, i + 1, sum, n)

\* intersection.length: the words of a, repeats counted, that occur in b
IntersectionSize(a, b) == Cardinality({i \in 1..Len(a) : a[i] \in Range(b)})

\* Object.keys(uniqueWords).length
UnionSize(a, b) == Cardinality(Range(a) \cup Range(b))

\* the pairs i < j of 1..n, in loop order
PairsOf(n) == {p \in (1..n) \X (1..n) : p[1] < p[2]}

RECURSIVE SumFractions(_)
\* the sum of the similarities of a set of pairs, as [num, den]
SumFractions(fracs) ==
    IF fracs = {} THEN [num |-> 0, den |-> 1]
    ELSE LET f == CHOOSE x \in fracs : TRUE
             rest == SumFractions(fracs \ {f})
         IN  [num |-> rest.num * f.den + f.num * rest.den, den |-> rest.den * f.den]

\* avgSimilarity >= 0.3
HighWordOverlap(wordArrays) ==
    LET pairs == PairsOf(Len(wordArrays))
        fracs == {[pair |-> p,
                   num |-> IF UnionSize(wordArrays[p[1]], wordArrays[p[2]]) > 0
                           THEN IntersectionSize(wordArrays[p[1]], wordArrays[p[2]]) ELSE 0,
                   den |-> IF UnionSize(wordArrays[p[1]], wordArrays[p[2]]) > 0
                           THEN UnionSize(wordArrays[p[1]], wordArrays[p[2]]) ELSE 1]
                    : p \in pairs}
        total == SumFractions(fracs)
    IN  /\ pairs /= {}
        /\ 10 * total.num >= 3 * total.den * Cardinality(pairs)

openingPhrases ==
    {<<"i", " ", "a", "m", " ", "w", "r", "i", "t", "i", "n", "g">>,
     <<"i", "t", " ", "i", "s", " ", "w", "i", "t", "h">>,
     <<"i", " ", "a", "m", " ", "p", "l", "e", "a", "s", "e", "d">>,
     <<"i", " ", "a", "m", " ", "d", "e", "l", "i", "g", "h", "t", "e", "d">>,
     <<"i", " ", "a", "m", " ", "h", "a", "p", "p", "y">>,
     <<"i", " ", "h", "a", "v", "e", " ", "k", "n", "o", "w", "n">>,
     <<"t", "h", "i", "s", " ", "l", "e", "t", "t", "e", "r">>,
     <<"t", "o", " ", "w", "h", "o", "m">>}

closingPhrases ==
    {<<"i", "f", " ", "y", "o", "u", " ", "h", "a", "v", "e">>,
     <<"p", "l", "e", "a", "s", "e", " ", "f", "e", "e", "l">>,
     <<"p", "l", "e", "a", "s", "e", " ", "d", "o", " ", "n", "o", "t">>,
     <<"i", " ", "w", "o", "u", "l", "d", " ", "b", "e">>,
     <<"i", " ", "c", "a", "n", " ", "b", "e">>,
     <<"i", " ", "a", "m", " ", "a", "v", "a", "i", "l", "a", "b", "l", "e">>,
     <<"s", "i", "n", "c", "e", "r", "e", "l", "y">>,
     <<"d", "o", " ", "n", "o", "t", " ", "h", "e", "s", "i", "t", "a", "t", "e">>,
     <<"i", " ", "h", "i", "g", "h", "l", "y", " ", "r", "e", "c", "o", "m", "m", "e", "n", "d">>,
     <<"i", " ", "r", "e", "c", "o", "m", "m", "e", "n", "d">>,
     <<"i", " ", "e", "n", "d", "o", "r", "s", "e">>,
     <<"w", "i", "t", "h", "o", "u", "t", " ", "r", "e", "s", "e", "r", "v", "a", "t", "i", "o", "n">>}

\* isOpeningOrClosing
isOpeningOrClosing(filteredSentences) ==
    \E i \in 1..Len(filteredSentences) :
        \E phrase \in openingPhrases \cup closingPhrases :
            Contains(ToLowerCase(filteredSentences[i]), phrase)

\* areSentencesSimilar(sentences); a missing sentence (undefined) is <<>>
areSentencesSimilar(sentences) ==
    IF Len(sentences) < 2 THEN TRUE
    ELSE IF \E i \in 1..Len(sentences) : sentences[i] = <<>> THEN FALSE
    ELSE LET filteredSentences ==
                 FilterByLength(sentences, 1, SumOfLengths(sentences, 1), Len(sentences))
         IN  IF 10 * Len(filteredSentences) < 7 * Len(sentences)
             THEN FALSE
             ELSE \/ HighWordOverlap([i \in 1..Len(filteredSentences) |->
                                         tokenizeSentence(filteredSentences[i])])
                  \/ isOpeningOrClosing(filteredSentences)

\* sentences.map(s => s.trim())
TrimAll(sentences) == [i \in 1..Len(sentences) |-> Trim(sentences[i])]

\* sentences[i] for a 0-based index i, undefined (<<>>) outside the array
At(sentences, i) == IF i >= 0 /\ i < Len(sentences) THEN sentences[i + 1] ELSE <<>>

RECURSIVE ParseSamples(_, _, _)
\* the loop that fills sampleSentences and maxOpeningPatternLength
ParseSamples(contents, i, acc) ==
    IF i > Len(contents) THEN acc
    ELSE LET sentences == SplitSentences(contents[i]) IN
         IF contents[i] = <<>> \/ Len(sentences) = 0
         THEN ParseSamples(contents, i + 1, acc)
         ELSE ParseSamples(contents, i + 1,
                  [sampleSentences |-> Append(acc.sampleSentences, TrimAll(sentences)),
                   maxOpeningPatternLength |->
                       IF acc.maxOpeningPatternLength = 0
                       THEN Len(sentences) \div 2
                       ELSE IF acc.maxOpeningPatternLength < Len(sentences) \div 2
                            THEN acc.maxOpeningPatternLength
                            ELSE Len(sentences) \div 2])

\* OpeningScan without the break: every position below the bound is taken
OpeningScanNoBreak(sampleSentences, position, maxLen) ==
    [p \in 1..maxLen |-> At(sampleSentences[1], p - 1)]

RECURSIVE OpeningScan(_, _, _)
\* for (position = 0; position < maxOpeningPatternLength; position++)
OpeningScan(sampleSentences, position, maxLen) ==
    IF position >= maxLen THEN <<>>
    ELSE LET sentencesAtPosition ==
                 [k \in 1..Len(sampleSentences) |-> At(sampleSentences[k], position)]
         IN  IF areSentencesSimilar(sentencesAtPosition)
             THEN <<sentencesAtPosition[1]>> \o OpeningScan(sampleSentences, position + 1, maxLen)
             ELSE <<>>

RECURSIVE ClosingScan(_, _, _)
\* for (posFromEnd = 1; posFromEnd <= maxOpeningPatternLength; posFromEnd++)
ClosingScan(sampleSentences, posFromEnd, maxLen) ==
    IF posFromEnd > maxLen THEN <<>>
    ELSE LET sentencesAtPosition ==
                 [k \in 1..Len(sampleSentences) |->
                     At(sampleSentences[k], Len(sampleSentences[k]) - posFromEnd)]
         IN  IF areSentencesSimilar(sentencesAtPosition)
             THEN ClosingScan(sampleSentences, posFromEnd + 1, maxLen) \o <<sentencesAtPosition[1]>>
             ELSE <<>>

\* a variant that applies the one-sample rule to the only sample that has a
\* sentence
extractCommonPatternsOneParsed(contents) ==
    LET parsed == ParseSamples(contents, 1,
                      [sampleSentences |-> <<>>, maxOpeningPatternLength |-> 0])
    IN  IF Len(parsed.sampleSentences) = 0
        THEN [openingSentences |-> <<>>, closingSentences |-> <<>>]
        ELSE IF Len(parsed.sampleSentences) = 1
        THEN [openingSentences |-> <<parsed.sampleSentences[1][1]>>,
              closingSentences |->
                  <<parsed.sampleSentences[1][Len(parsed.sampleSentences[1])]>>]
        ELSE [openingSentences |->
                  OpeningScan(parsed.sampleSentences, 0, parsed.maxOpeningPatternLength),
              closingSentences |->
                  ClosingScan(parsed.sampleSentences, 1, parsed.maxOpeningPatternLength)]

\* extractCommonPatterns, over the contents of the teacher's samples
extractCommonPatterns(contents) ==
    IF Len(contents) < 2
    THEN IF Len(contents) = 1 /\ contents[1] /= <<>>
         THEN LET sentences == SplitSentences(contents[1]) IN
              [openingSentences |->
                   <<IF Len(sentences) > 0 THEN Trim(sentences[1]) ELSE <<>> >>,
               closingSentences |->
                   <<IF Len(sentences) > 0 THEN Trim(sentences[Len(sentences)]) ELSE <<>> >>]
         ELSE [openingSentences |-> <<>>, closingSentences |-> <<>>]
    ELSE LET parsed == ParseSamples(contents, 1,
                           [sampleSentences |-> <<>>, maxOpeningPatternLength |-> 0])
         IN  IF Len(parsed.sampleSentences) < 2
             THEN [openingSentences |-> <<>>, closingSentences |-> <<>>]
             ELSE [openingSentences |->
                       OpeningScan(parsed.sampleSentences, 0, parsed.maxOpeningPatternLength),
                   closingSentences |->
                       ClosingScan(parsed.sampleSentences, 1, parsed.maxOpeningPatternLength)]

(***************************************************************************)
(* Template Builder (ContentGenerator.categorizeTemplate).                 *)
(* The model call answers with a label response:                           *)
(*   kind "fail"      the call throws                                      *)
(*   kind "notext"    response.text is undefined or ''                     *)
(*   kind "nonstring" response.text is truthy and not a string             *)
(*   kind "array"     the text holds a [...] span that JSON.parse accepts; *)
(*                    labels are its elements ("" for a falsy element)     *)
(*   kind "badjson"   the text holds a [...] span that JSON.parse rejects  *)
(*   kind "lines"     the text holds no [...] span; lines are its lines    *)
(***************************************************************************)
LabelResponse(kind, labels, lines) == [kind |-> kind, labels |-> labels, lines |-> lines]

IsDigit(ch) == ch \in {"0", "1", "2", "3", "4", "5", "6", "7", "8", "9"}

RECURSIVE SkipDigits(_)
SkipDigits(s) ==
    IF s /= <<>> /\ IsDigit(Head(s)) THEN SkipDigits(Tail(s)) ELSE s

\* line.replace(/^\d+\.\s*/, '')
StripNumbering(line) ==
    LET rest == SkipDigits(line) IN
    IF Len(rest) < Len(line) /\ rest /= <<>> /\ Head(rest) = "."
    THEN TrimStart(Tail(rest))
    ELSE line

\* validateCategory(category)
validateCategory(category) ==
    LET normalizedCategory == Trim(ToLowerCase(category)) IN
    IF category = <<>> THEN "commentary"
    ELSE IF \/ Contains(normalizedCategory, <<"i", "n", "t", "r", "o", "d", "u", "c", "t", "i", "o", "n">>)
            \/ Contains(normalizedCategory, <<"c", "o", "n", "t", "e", "x", "t">>)
         THEN "introduction_context"
    ELSE IF Contains(normalizedCategory, <<"e", "n", "d", "o", "r", "s", "e">>) THEN "endorsement"
    ELSE IF Contains(normalizedCategory, <<"c", "o", "m", "m", "e", "n", "t">>) THEN "commentary"
    ELSE IF \/ Contains(normalizedCategory, <<"q", "u", "a", "l", "i", "t", "y">>)
            \/ Contains(normalizedCategory, <<"q", "u", "a", "l", "i", "t", "i", "e", "s">>)
         THEN "qualities"
    ELSE IF \/ Contains(normalizedCategory, <<"f", "u", "r", "t", "h", "e", "r">>)
            \/ Contains(normalizedCategory, <<"d", "i", "s", "c", "u", "s", "s", "i", "o", "n">>)
         THEN "further_discussion"
    ELSE "commentary"

IsNonBlank(line) == Len(Trim(line)) > 0

\* the line-by-line fallback
LabelsFromLines(lines) ==
    LET kept == SelectSeq(lines, IsNonBlank)
    IN  [i \in 1..Len(kept) |-> validateCategory(Trim(StripNumbering(kept[i])))]

\* the positional fallback of the catch block; index counts from 0
PositionalLabel(index, n) ==
    IF 10 * index < 2 * n THEN "introduction_context"
    ELSE IF 10 * index < 4 * n THEN "qualities"
    ELSE IF 10 * index < 7 * n THEN "endorsement"
    ELSE IF 10 * index < 9 * n THEN "commentary"
    ELSE "further_discussion"

\* categories before padding
ExtractLabels(response, n) ==
    CASE response.kind = "array" -> response.labels
      [] response.kind = "lines" -> LabelsFromLines(response.lines)
      [] response.kind = "nonstring" -> [i \in 1..n |-> PositionalLabel(i - 1, n)]
      [] OTHER -> <<>>

\* AlignLabels padding with 'qualities'
AlignLabelsOtherPad(categories, n) ==
    [i \in 1..n |-> IF i <= Len(categories) THEN categories[i] ELSE "qualities"]

\* while (categories.length < n) push('commentary'); slice(0, n)
AlignLabels(categories, n) ==
    [i \in 1..n |-> IF i <= Len(categories) THEN categories[i] ELSE "commentary"]

\* PositionOf marking only the last sentence as closing
PositionOfLastOnly(index, n) ==
    IF index = 0 THEN "opening"
    ELSE IF index = n - 1 THEN "closing"
    ELSE "middle"

\* the position of sentence `index` (from 0) among n
PositionOf(index, n) ==
    IF index = 0 THEN "opening"
    ELSE IF n >= 3 /\ index >= n - 2 THEN "closing"
    ELSE IF n < 3 /\ index = n - 1 THEN "closing"
    ELSE "middle"

\* the template items for the sentences, given the aligned labels
TemplateItems(sentences, categories) ==
    [i \in 1..Len(sentences) |->
        [category |-> IF categories[i] = "" THEN "commentary" ELSE categories[i],
         originalSentence |-> Trim(sentences[i]),
         position |-> PositionOf(i - 1, Len(sentences))]]

\* NeedsLabelCall without the sentences.length === 0 return
NeedsLabelCallAnyText(templateContent) == templateContent /= <<>>

\* categorizeTemplate issues its model call
NeedsLabelCall(templateContent) ==
    templateContent /= <<>> /\ Len(SplitSentences(templateContent)) > 0

\* categorizeTemplate(templateContent), the model call answering `response`
categorizeTemplate(templateContent, response) ==
    LET sentences == SplitSentences(templateContent) IN
    TemplateItems(sentences, AlignLabels(ExtractLabels(response, Len(sentences)),
                                         Len(sentences)))

(***************************************************************************)
(* Letter Assembler (ContentGenerator.generateLetter) and Personalizer.    *)
(***************************************************************************)
ApologyText ==
    <<"I couldn't generate a recommendation letter due to insufficient template structure. Please ensure there are enough writing samples with complete sentences.">>

PersonalizeFallbackText ==
    <<"Unable to generate personalized content. Please try again.">>

\* categorizedSentences[category] || []
SentencesInCategory(categorizedSentences, category) ==
    IF category \in DOMAIN categorizedSentences
    THEN categorizedSentences[category] ELSE <<>>

\* the sentences Math.random() can select as the replacement of an item
ReplacementChoices(item, categorizedSentences, openingSentences, closingSentences) ==
    IF item.position = "opening" /\ Len(openingSentences) > 0
    THEN Range(openingSentences)
    ELSE IF item.position = "closing" /\ Len(closingSentences) > 0
    THEN Range(closingSentences)
    ELSE IF Len(SentencesInCategory(categorizedSentences, item.category)) = 0
    THEN {<<>>}
    ELSE Range(SentencesInCategory(categorizedSentences, item.category))

\* DraftSentence without the fallback to item.originalSentence
DraftSentenceNoFallback(item, replacementSentence) == replacementSentence

\* item.replacementSentence || item.originalSentence
DraftSentence(item, replacementSentence) ==
    IF replacementSentence = <<>> THEN item.originalSentence ELSE replacementSentence

RECURSIVE ReplacedStructures(_, _, _, _, _)
\* every outcome of templateStructure.map(...): the sentences of the draft
ReplacedStructures(templateStructure, i, stored, opening, closing) ==
    IF i > Len(templateStructure) THEN {<<>>}
    ELSE {<<DraftSentence(templateStructure[i], r)>> \o rest :
              r \in ReplacementChoices(templateStructure[i], stored, opening, closing),
              rest \in ReplacedStructures(templateStructure, i + 1, stored, opening,
                                          closing)}

RECURSIVE Join(_, _)
\* sentences.join(' ')
Join(sentences, i) ==
    IF i > Len(sentences) THEN <<>>
    ELSE IF i = Len(sentences) THEN sentences[i]
    ELSE sentences[i] \o <<" ">> \o Join(sentences, i + 1)

\* return response.text || "Unable to generate personalized content. ..."
personalizeLetter(text) == IF text = <<>> THEN PersonalizeFallbackText ELSE text

(***************************************************************************)
(* Inputs.                                                                 *)
(***************************************************************************)
\* two spellings of one teacher, which share a storage key
TeacherAB == <<"a", " ", "b">>
Teachers == {TeacherAB, <<"a", "_", "b">>}

\* "a. a.": two sentences, "a." and " a."
SampleTwo == <<"a", ".", " ", "a", ".">>

\* what the model may put in an array: a sentence of the passage, as matched
\* or trimmed, a blank string, or something that is not a string
AnswerValues == {<<"a", ".">>, <<" ", "a", ".">>, <<" ">>, NonString}

RECURSIVE SeqsUpTo(_, _)
\* the sequences over S of length at most n
SeqsUpTo(S, n) ==
    IF n = 0 THEN {<<>>}
    ELSE LET shorter == SeqsUpTo(S, n - 1)
         IN  shorter \cup {Append(q, x) : q \in shorter, x \in S}

RECURSIVE BatchOf(_, _)
\* the AnalysisCategories holding the <<category, value>> pairs in order
BatchOf(pairs, i) ==
    IF i > Len(pairs) THEN EmptyCategories
    ELSE LET rest == BatchOf(pairs, i + 1)
         IN  [rest EXCEPT ![pairs[i][1]] = <<pairs[i][2]>> \o @]

\* every AnalysisCategories with at most MaxBatch entries over AnswerValues
AnswerCategories == {"endorsement", "commentary"}

Batches == {BatchOf(p, 1) : p \in SeqsUpTo(AnswerCategories \X AnswerValues, MaxBatch)}

\* the JSON objects the model may answer: the five arrays, or 'qualities'
\* missing or not an array
JsonObjects ==
    Batches \cup {[b EXCEPT !["qualities"] = NotArray] : b \in {x \in Batches : x["qualities"] = <<>>}}

\* answers that are not JSON: a header and two sentences, one with a bullet;
\* a sentence under no header; a header, a dash item and a blank line
TextAnswers ==
    {<<HeaderLine("commentary"), PlainLine(<<"a", ".">>), PlainLine(<<"*", " ", "a", ".">>)>>,
     <<PlainLine(<<"a", ".">>)>>,
     <<HeaderLine("qualities"), PlainLine(<<"-", " ", "a", ".">>), PlainLine(<<" ">>),
       PlainLine(<<" ", "a", ".">>)>>}

\* the answers of the model call made by analyzeSample
AnalysisResponses ==
    {FailResponse, NoTextResponse}
        \cup {JsonResponse(o) : o \in JsonObjects}
        \cup {TextResponse(l) : l \in TextAnswers}

EmptyMap == [k \in {} |-> <<>>]

IdleUi ==
    [isLoading |-> FALSE, statusMessage |-> "", generatedContent |-> <<>>,
     studentNotes |-> RawText(<<>>)]
IdleGen == [pc |-> "idle"]

\* the pages (browsing contexts) of the app open on the origin; they share
\* one window.localStorage and one IndexedDB
Pages == {1, 2}

\* no page runs an analysis
NoAnalyses == [w \in Pages |-> [pc |-> "idle"]]

(***************************************************************************)
(* The Category Store under analyses, reads, exports and clears.           *)
(***************************************************************************)
InitStore ==
    /\ localStorage = EmptyMap
    /\ now = 0
    /\ db = EmptyMap
    /\ ui = IdleUi
    /\ gen = IdleGen
    /\ analyses = NoAnalyses
    /\ last = [op |-> "none", teacherName |-> <<>>, threw |-> FALSE, detail |-> <<>>]

\* Date.now() moves on
Tick ==
    /\ now < MaxClock
    /\ now' = now + 1
    /\ UNCHANGED <<analyses, localStorage, db, ui, gen, last>>

\* TeacherSelector.analyzeSample -> writingSampleAnalyzer.analyzeSample
AnalyzeSample(teacherName, sample, response) ==
    LET r == analyzeSample(localStorage, db, now, sample, teacherName, response) IN
    /\ localStorage' = r.ls
    /\ db' = r.db
    /\ last' = [op |-> "analyzeSample", teacherName |-> teacherName,
                threw |-> r.threw,
                detail |-> [size |-> Total(r.value),
                            added |-> Total(getCategories(r.ls, teacherName))
                                        - Total(getCategories(localStorage, teacherName))]]
    /\ UNCHANGED <<analyses, now, ui, gen>>

\* CategorizationViewer.loadCategories -> getCategories
GetCategories(teacherName) ==
    /\ last' = [op |-> "getCategories", teacherName |-> teacherName, threw |-> FALSE,
                detail |-> getCategories(localStorage, teacherName)]
    /\ UNCHANGED <<analyses, localStorage, now, db, ui, gen>>

\* exportCategories: one download per category that holds a sentence
ExportCategories(teacherName) ==
    /\ last' = [op |-> "exportCategories", teacherName |-> teacherName, threw |-> FALSE,
                detail |-> {c \in Categories :
                               Len(getCategories(localStorage, teacherName)[c]) > 0}]
    /\ UNCHANGED <<analyses, localStorage, now, db, ui, gen>>

\* CategorizationViewer.handleClearCategories -> clearCategories; the order in
\* which localStorage.key(i) enumerates the keys is the browser's choice
ClearCategories(teacherName) ==
    /\ \E keyOrder \in Orderings(DOMAIN RemoveItem(localStorage,
                                                    getCategoryStorageKey(teacherName))) :
           localStorage' = clearCategories(
               RemoveItem(localStorage, getCategoryStorageKey(teacherName)),
               teacherName, keyOrder)
    /\ last' = [op |-> "clearCategories", teacherName |-> teacherName, threw |-> FALSE,
                detail |-> <<>>]
    /\ UNCHANGED <<analyses, now, db, ui, gen>>

NextStore ==
    \/ Tick
    \/ \E r \in AnalysisResponses : AnalyzeSample(TeacherAB, SampleTwo, r)
    \/ GetCategories(TeacherAB)
    \/ ExportCategories(TeacherAB)
    \/ ClearCategories(TeacherAB)

SpecStore == InitStore /\ [][NextStore]_vars

(***************************************************************************)
(* One analysis and its re-submission, over a store that earlier analyses  *)
(* have filled: the inputs and the value returned are kept in `last`.      *)
(***************************************************************************)
\* the stores one earlier analysis of SampleTwo leaves
SeedStores ==
    {EmptyMap} \cup
    {storeAndAppendCategories(EmptyMap, b, TeacherAB, SampleTwo, 0) : b \in Batches}

InitAnalyze ==
    /\ localStorage \in SeedStores
    /\ now = 0
    /\ db = EmptyMap
    /\ ui = IdleUi
    /\ gen = IdleGen
    /\ analyses = NoAnalyses
    /\ last = [op |-> "none", teacherName |-> <<>>, threw |-> FALSE, detail |-> <<>>]

\* analyzeSample(sample, teacherName), the model answering `response`
Submit(teacherName, sample, response) ==
    LET r == analyzeSample(localStorage, db, now, sample, teacherName, response) IN
    /\ last.op = "none"
    /\ localStorage' = r.ls
    /\ db' = r.db
    /\ last' = [op |-> "analyzeSample", teacherName |-> teacherName, threw |-> r.threw,
                detail |-> [n |-> 1, sample |-> sample, response |-> response,
                            value |-> r.value,
                            before |-> getCategories(localStorage, teacherName),
                            once |-> getCategories(r.ls, teacherName)]]
    /\ UNCHANGED <<analyses, now, ui, gen>>

\* the same sample analysed again, the model giving the same answer
Resubmit ==
    LET d == last.detail
        r == analyzeSample(localStorage, db, now, d.sample, last.teacherName, d.response)
    IN
    /\ last.op = "analyzeSample"
    /\ d.n = 1
    /\ localStorage' = r.ls
    /\ db' = r.db
    /\ last' = [last EXCEPT !.threw = r.threw, !.detail.n = 2, !.detail.value = r.value]
    /\ UNCHANGED <<analyses, now, ui, gen>>

NextAnalyze ==
    \/ Tick
    \/ \E t \in Teachers, r \in AnalysisResponses : Submit(t, SampleTwo, r)
    \/ Resubmit

SpecAnalyze == InitAnalyze /\ [][NextAnalyze]_vars

(***************************************************************************)
(* A generation request: App.generateContent and                           *)
(* ContentGenerator.generateContent, one action per stretch of code        *)
(* between two awaits on the database or on the model.                     *)
(***************************************************************************)
Digits == <<"0", "1", "2", "3", "4", "5", "6", "7", "8", "9">>

RECURSIVE SamplesFrom(_, _, _)
\* getTeacherWritingSamples(teacherName): the contents, in key order
SamplesFrom(dbv, teacherName, d) ==
    IF d > Len(Digits) THEN <<>>
    ELSE (IF /\ <<"sample-", Digits[d]>> \in DOMAIN dbv
             /\ dbv[<<"sample-", Digits[d]>>].type = "writing-sample"
             /\ dbv[<<"sample-", Digits[d]>>].teacherName = teacherName
          THEN <<dbv[<<"sample-", Digits[d]>>].content>> ELSE <<>>)
             \o SamplesFrom(dbv, teacherName, d + 1)

getTeacherWritingSamples(dbv, teacherName) == SamplesFrom(dbv, teacherName, 1)

UserInput(type, teacherName, content) ==
    [type |-> type, teacherName |-> teacherName, content |-> content,
     originalSampleId |-> <<>>]

\* App.saveWritingSample(sample)
SaveWritingSample(teacherName, sample) ==
    /\ ~ui.isLoading
    /\ gen.pc = "idle"
    /\ db' = saveUserInput(db, <<"sample-", TsText(now)>>,
                           UserInput("writing-sample", teacherName, sample))
    /\ ui' = [ui EXCEPT !.statusMessage = "Writing sample saved successfully"]
    /\ last' = [op |-> "saveWritingSample", teacherName |-> teacherName, threw |-> FALSE,
                detail |-> <<>>]
    /\ UNCHANGED <<analyses, localStorage, now, gen>>

\* the form's notes before anything is typed
DefaultNotes ==
    [studentName |-> <<>>, schoolProgram |-> <<>>, course |-> <<>>, customCourse |-> <<>>,
     whenTaught |-> <<>>, academicStrength |-> <<>>, characterWords |-> <<<<>>, <<>>, <<>>>>,
     academicAnecdote |-> <<>>, characterAnecdote |-> <<>>]

\* the notes the form holds: what it last passed to App, or the default
FormNotes(studentNotes) ==
    IF studentNotes.json THEN JSONParse(studentNotes) ELSE DefaultNotes

\* notes.characterWords.filter(word => word.trim()).length
FilledWords(words) == Cardinality({i \in 1..Len(words) : Trim(words[i]) /= <<>>})

\* StudentNotesInput.isValid
isValid(notes) ==
    /\ Trim(notes.studentName) /= <<>>
    /\ Trim(notes.schoolProgram) /= <<>>
    /\ (Trim(notes.course) /= <<>> \/ Trim(notes.customCourse) /= <<>>)
    /\ Trim(notes.whenTaught) /= <<>>
    /\ Trim(notes.academicStrength) /= <<>>
    /\ FilledWords(notes.characterWords) = 3
    /\ Trim(notes.academicAnecdote) /= <<>>
    /\ Trim(notes.characterAnecdote) /= <<>>

\* !studentNotes.trim()
NotesBlank(studentNotes) == ~studentNotes.json /\ Trim(studentNotes.text) = <<>>

\* StudentNotesInput.handleInputChange -> onChange(JSON.stringify(updatedNotes))
EditStudentNotes(field, value) ==
    /\ ~ui.isLoading
    /\ FormNotes(ui.studentNotes)[field] /= value
    /\ ui' = [ui EXCEPT !.studentNotes =
                  JSONStringify([FormNotes(ui.studentNotes) EXCEPT ![field] = value])]
    /\ last' = [op |-> "editStudentNotes", teacherName |-> <<>>, threw |-> FALSE,
                detail |-> <<>>]
    /\ UNCHANGED <<analyses, localStorage, now, db, gen>>

\* RequestFails with the apology shown as the result
RequestFailsWithApology(error) ==
    /\ ui' = [ui EXCEPT !.isLoading = FALSE, !.generatedContent = ApologyText,
                        !.statusMessage = "Error generating content"]
    /\ last' = [op |-> "generateContent", teacherName |-> gen.teacherName, threw |-> FALSE,
                detail |-> [error |-> error, result |-> ApologyText, calls |-> gen.calls,
                            samples |-> gen.samples, templateLength |-> gen.templateLength]]
    /\ gen' = IdleGen
    /\ UNCHANGED <<analyses, localStorage, now, db>>

\* a variant that issues the failed call again
RequestFailsRetrying(error) ==
    /\ gen' = [gen EXCEPT !.calls = @ + 1]
    /\ last' = [op |-> "generateContent", teacherName |-> gen.teacherName, threw |-> TRUE,
                detail |-> [error |-> error, result |-> <<>>, calls |-> gen.calls,
                            samples |-> gen.samples, templateLength |-> gen.templateLength]]
    /\ UNCHANGED <<analyses, localStorage, now, db, ui>>

\* the catch and finally blocks of App.generateContent
RequestFails(error) ==
    /\ ui' = [ui EXCEPT !.isLoading = FALSE, !.statusMessage = "Error generating content"]
    /\ last' = [op |-> "generateContent", teacherName |-> gen.teacherName, threw |-> TRUE,
                detail |-> [error |-> error, result |-> <<>>, calls |-> gen.calls,
                            samples |-> gen.samples, templateLength |-> gen.templateLength]]
    /\ gen' = IdleGen
    /\ UNCHANGED <<analyses, localStorage, now, db>>

\* a variant that shows the letter without saving it
RequestReturnsUnsaved(letter, calls, templateLength) ==
    /\ ui' = [ui EXCEPT !.isLoading = FALSE, !.generatedContent = letter,
                        !.statusMessage = "Content generated successfully"]
    /\ last' = [op |-> "generateContent", teacherName |-> gen.teacherName, threw |-> FALSE,
                detail |-> [error |-> "", result |-> letter, calls |-> calls,
                            samples |-> gen.samples, templateLength |-> templateLength]]
    /\ gen' = IdleGen
    /\ UNCHANGED <<analyses, localStorage, now, db>>

\* generateContent returned `letter`: the record is saved and the letter shown
RequestReturns(letter, calls, templateLength) ==
    /\ db' = saveUserInput(db, <<"generated-", TsText(now)>>,
                           UserInput("generated-content", gen.teacherName, letter))
    /\ ui' = [ui EXCEPT !.isLoading = FALSE, !.generatedContent = letter,
                        !.statusMessage = "Content generated successfully"]
    /\ last' = [op |-> "generateContent", teacherName |-> gen.teacherName, threw |-> FALSE,
                detail |-> [error |-> "", result |-> letter, calls |-> calls,
                            samples |-> gen.samples, templateLength |-> templateLength]]
    /\ gen' = IdleGen
    /\ UNCHANGED <<analyses, localStorage, now>>

\* the Generate button: setIsLoading(true), saveStudentNotes()
GenerateStart(teacherName) ==
    /\ gen.pc = "idle"
    /\ ~ui.isLoading
    /\ ~NotesBlank(ui.studentNotes)
    /\ ui' = [ui EXCEPT !.isLoading = TRUE, !.statusMessage = "Generating content..."]
    /\ db' = saveUserInput(db, <<"notes-", TsText(now)>>,
                           UserInput("student-note", teacherName, ui.studentNotes))
    /\ gen' = [pc |-> "getSample", teacherName |-> teacherName, calls |-> 0,
               samples |-> 0, templateLength |-> 0, studentInfoJSON |-> ui.studentNotes]
    /\ UNCHANGED <<analyses, localStorage, now, last>>

\* JSON.parse(studentInfoJSON); getRandomWritingSample resolves; getCategories
\* reads the store
GenerateGetSample ==
    /\ gen.pc = "getSample"
    /\ LET samples == getTeacherWritingSamples(db, gen.teacherName) IN
       IF ~gen.studentInfoJSON.json
       THEN RequestFails("Unexpected token in JSON")
       ELSE IF Len(samples) = 0
       THEN RequestFails("No writing samples found for template")
       ELSE /\ \E randomIndex \in 1..Len(samples) :
                   gen' = [pc |-> "patterns", teacherName |-> gen.teacherName,
                           calls |-> 0, samples |-> Len(samples), templateLength |-> 0,
                           studentInfo |-> JSONParse(gen.studentInfoJSON),
                           templateSample |-> samples[randomIndex],
                           categorizedSentences |->
                               getCategories(localStorage, gen.teacherName)]
            /\ UNCHANGED <<analyses, localStorage, now, db, ui, last>>

\* extractCommonPatterns resolves; categorizeTemplate either returns [] at
\* once, and generateLetter the apology, or sends its prompt to the model
GenerateExtractPatterns ==
    /\ gen.pc = "patterns"
    /\ IF NeedsLabelCall(gen.templateSample)
       THEN /\ gen' = [gen EXCEPT !.pc = "categorize", !.calls = 1] @@
                      [patterns |-> extractCommonPatterns(
                                        getTeacherWritingSamples(db, gen.teacherName))]
            /\ UNCHANGED <<analyses, localStorage, now, db, ui, last>>
       ELSE RequestReturns(ApologyText, 0, 0)

\* the labelling call ends; on an answer generateLetter builds the draft and
\* personalizeLetter sends its prompt
GenerateCategorized(response) ==
    /\ gen.pc = "categorize"
    /\ IF response.kind = "fail"
       THEN RequestFails("Text generation failed")
       ELSE LET templateStructure == categorizeTemplate(gen.templateSample, response) IN
            /\ \E replaced \in ReplacedStructures(templateStructure, 1,
                                   gen.categorizedSentences,
                                   gen.patterns.openingSentences,
                                   gen.patterns.closingSentences) :
                   gen' = [gen EXCEPT !.pc = "personalize", !.calls = 2,
                                      !.templateLength = Len(templateStructure)] @@
                          [templateStructure |-> templateStructure,
                           replaced |-> replaced,
                           draftLetter |-> Join(replaced, 1)]
            /\ UNCHANGED <<analyses, localStorage, now, db, ui, last>>

\* the personalization call ends
GeneratePersonalized(failed, text) ==
    /\ gen.pc = "personalize"
    /\ IF failed
       THEN RequestFails("Text generation failed")
       ELSE RequestReturns(personalizeLetter(text), gen.calls, gen.templateLength)

(***************************************************************************)
(* Generation requests over the corpora and stores below.                  *)
(***************************************************************************)
SampleNone == <<"x">>
SampleFour == <<"A", "b", "c", "d", ".", " ", "p", ".", " ", "q", ".", " ", "w", "x", "y", "z", ".">>
SampleFourB == <<"a", "b", "c", "d", ".", " ", "r", ".", " ", "s", ".", " ", "t", ".">>
SamplePair == <<"m", ".", " ", "n", ".">>

\* the writing samples of the teacher, oldest first
Corpora ==
    {<<>>, <<SampleNone>>, <<SampleFour>>, <<SampleFour, SampleFourB>>,
     <<SamplePair, SampleNone>>, <<SamplePair, SampleFour>>}

RECURSIVE SaveAll(_, _, _)
\* the database after the samples were saved, one per millisecond
SaveAll(teacherName, contents, i) ==
    IF i = 0 THEN EmptyMap
    ELSE saveUserInput(SaveAll(teacherName, contents, i - 1), <<"sample-", TsText(i - 1)>>,
                       UserInput("writing-sample", teacherName, contents[i]))

\* what earlier analyses returned: two endorsements and a blank commentary;
\* one commentary
SeedAnalyses ==
    {[EmptyCategories EXCEPT !["endorsement"] = <<<<"e", ".">>, <<" ", "f", ".">>>>,
                             !["commentary"] = << <<" ">> >>],
     [EmptyCategories EXCEPT !["commentary"] = <<<<"c", ".">>>>]}

GenStores ==
    {EmptyMap} \cup
    {storeAndAppendCategories(EmptyMap, b, TeacherAB, SampleFour, 0) : b \in SeedAnalyses}

LabelResponses ==
    {LabelResponse("fail", <<>>, <<>>),
     LabelResponse("notext", <<>>, <<>>),
     LabelResponse("nonstring", <<>>, <<>>),
     LabelResponse("badjson", <<>>, <<>>),
     LabelResponse("array", <<"endorsement", "commentary", "foo", "">>, <<>>),
     LabelResponse("array", <<"qualities">>, <<>>),
     LabelResponse("lines", <<>>, <<<<"1", ".", " ", "E", "n", "d", "o", "r", "s", "e", "m", "e", "n", "t">>, <<" ">>, <<"c", "o", "m", "m", "e", "n", "t", "a", "r", "y">>>>)}

PersonalizedTexts == {<<>>, <<"Dear Admissions Committee, ...">>}

\* a form filled in except for the student's name and the character words
NotesTyped ==
    [DefaultNotes EXCEPT !.schoolProgram = <<"p">>, !.course = <<"c">>,
                         !.whenTaught = <<"w">>, !.academicStrength = <<"s">>,
                         !.academicAnecdote = <<"a">>, !.characterAnecdote = <<"b">>]

\* what the user types into the two fields left
NotesEdits ==
    {<<"studentName", <<"J">>>>, <<"studentName", <<" ">>>>,
     <<"characterWords", <<<<"k">>, <<"i">>, <<"n">>>>>>,
     <<"characterWords", <<<<"k">>, <<" ">>, <<>>>>>>}

InitGen ==
    /\ localStorage \in GenStores
    /\ now = 0
    /\ \E contents \in Corpora : db = SaveAll(TeacherAB, contents, Len(contents))
    /\ ui = [IdleUi EXCEPT !.studentNotes = JSONStringify(NotesTyped)]
    /\ gen = IdleGen
    /\ analyses = NoAnalyses
    /\ last = [op |-> "none", teacherName |-> <<>>, threw |-> FALSE, detail |-> <<>>]

NextGen ==
    \/ \E e \in NotesEdits : EditStudentNotes(e[1], e[2])
    \/ GenerateStart(TeacherAB)
    \/ GenerateGetSample
    \/ GenerateExtractPatterns
    \/ \E r \in LabelResponses : GenerateCategorized(r)
    \/ \E t \in PersonalizedTexts : GeneratePersonalized(FALSE, t)
    \/ GeneratePersonalized(TRUE, <<>>)

SpecGen == InitGen /\ [][NextGen]_vars

(***************************************************************************)
(* The Template Builder alone: categorizeTemplate over samples of 0 to     *)
(* MaxSentences sentences and the answers of the labelling call.           *)
(***************************************************************************)
MaxSentences == 5

Letters == <<"a", "b", "c", "d", "e", "f", "g", "h">>

RECURSIVE SampleOfLength(_)
\* "a. b. c." ...: n sentences
SampleOfLength(n) ==
    IF n = 0 THEN <<>>
    ELSE IF n = 1 THEN <<Letters[1], ".">>
    ELSE SampleOfLength(n - 1) \o <<" ", Letters[n], ".">>

TemplateSamples == {SampleOfLength(n) : n \in 0..MaxSentences} \cup {SampleNone}

SurplusLabels ==
    <<"qualities", "endorsement", "further_discussion", "introduction_context",
      "commentary", "qualities", "endorsement", "qualities">>

TemplateResponses ==
    LabelResponses
    \cup {LabelResponse("array", labels, <<>>) :
              labels \in SeqsUpTo({"endorsement", "foo", ""}, 2)}
    \cup {LabelResponse("array", SurplusLabels, <<>>)}
    \cup {LabelResponse("badjson", <<>>, <<<<"[", "e", "n", "d", "o", "r", "s", "e", "m", "e", "n", "t", ",", " ", "q", "u", "a", "l", "i", "t", "i", "e", "s", "]">>>>)}

InitTemplate ==
    /\ localStorage = EmptyMap
    /\ now = 0
    /\ db = EmptyMap
    /\ ui = IdleUi
    /\ gen \in {[pc |-> "template", templateSample |-> t] : t \in TemplateSamples}
    /\ analyses = NoAnalyses
    /\ last = [op |-> "none", teacherName |-> <<>>, threw |-> FALSE, detail |-> <<>>]

\* categorizeTemplate(templateContent), the model call, if one is made, ending
\* as `response`
CategorizeTemplate(response) ==
    /\ gen.pc = "template"
    /\ last.op = "none"
    /\ last' = [op |-> "categorizeTemplate", teacherName |-> <<>>,
                threw |-> NeedsLabelCall(gen.templateSample) /\ response.kind = "fail",
                detail |-> [called |-> NeedsLabelCall(gen.templateSample),
                            response |-> response,
                            templateStructure |->
                                IF NeedsLabelCall(gen.templateSample) /\ response.kind /= "fail"
                                THEN categorizeTemplate(gen.templateSample, response)
                                ELSE <<>>]]
    /\ UNCHANGED <<analyses, localStorage, now, db, ui, gen>>

NextTemplate == \E r \in TemplateResponses : CategorizeTemplate(r)

SpecTemplate == InitTemplate /\ [][NextTemplate]_vars

(***************************************************************************)
(* The Pattern Extractor alone: extractCommonPatterns over the corpora of  *)
(* up to MaxSamples samples of up to MaxSampleSentences sentences.         *)
(***************************************************************************)
MaxSamples == 2
MaxSampleSentences == 4

\* a sentence of one word longer than three letters, and one without any
PatternSentences == {<<"a", "b", "c", "d", ".">>, <<"p", ".">>}

RECURSIVE JoinSentences(_, _)
JoinSentences(sentences, i) ==
    IF i > Len(sentences) THEN <<>>
    ELSE IF i = 1 THEN sentences[1] \o JoinSentences(sentences, 2)
    ELSE <<" ">> \o sentences[i] \o JoinSentences(sentences, i + 1)

PatternSamples ==
    {JoinSentences(q, 1) : q \in SeqsUpTo(PatternSentences, MaxSampleSentences) \ {<<>>}}
    \cup {SampleNone}

PatternCorpora == SeqsUpTo(PatternSamples, MaxSamples)

ComparedSentences ==
    PatternSentences \cup
    {<<"s", "i", "n", "c", "e", "r", "e", "l", "y", ".">>,
     <<"s", "i", "n", "c", "e", "r", "e", "l", "y", " ", "a", "b", "c", ".">>,
     <<"s", "i", "n", "c", "e", "r", "e", "l", "y", " ", "y", "o", "u", "r", "s", " ", "t", "r", "u", "l", "y", ".">>,
     <<"a", "b", "c", "d", "e", " ", "f", "g", "h", "i", "j", ".">>,
     <<"a", "b", "c", "d", "e", " ", "f", "g", "h", "i", "j", " ", "k", "l", "m", "n", ".">>,
     <<"a", "b", "c", "d", "e", " ", "f", "g", "h", "i", "j", " ", "k", "l", "m", "n", "o", " ", "p", "q", "r", "s", "t", ".">>,
     <<"T", "o", " ", "w", "h", "o", "m", " ", "a", "b", "c", "d", "e", ".">>,
     <<>>}

InitPatterns ==
    /\ localStorage = EmptyMap
    /\ now = 0
    /\ \E contents \in PatternCorpora : db = SaveAll(TeacherAB, contents, Len(contents))
    /\ ui = IdleUi
    /\ gen = IdleGen
    /\ analyses = NoAnalyses
    /\ last = [op |-> "none", teacherName |-> <<>>, threw |-> FALSE, detail |-> <<>>]

\* extractCommonPatterns(teacherName); scanned: the loop over the samples ran,
\* and left maxOpeningPatternLength
ExtractCommonPatterns(teacherName) ==
    LET contents == getTeacherWritingSamples(db, teacherName)
        parsed == ParseSamples(contents, 1,
                               [sampleSentences |-> <<>>, maxOpeningPatternLength |-> 0])
    IN
    /\ last.op = "none"
    /\ last' = [op |-> "extractCommonPatterns", teacherName |-> teacherName, threw |-> FALSE,
                detail |-> [contents |-> contents,
                            patterns |-> extractCommonPatterns(contents),
                            scanned |-> Len(contents) >= 2,
                            maxOpeningPatternLength |->
                                IF Len(contents) >= 2 THEN parsed.maxOpeningPatternLength
                                ELSE 0]]
    /\ UNCHANGED <<analyses, localStorage, now, db, ui, gen>>

NextPatterns == ExtractCommonPatterns(TeacherAB)

SpecPatterns == InitPatterns /\ [][NextPatterns]_vars

(***************************************************************************)
(* The similarity test alone, over pairs of the sentences above.           *)
(***************************************************************************)
\* areSentencesSimilar([a, b])
CompareSentences(a, b) ==
    /\ last.op = "none"
    /\ last' = [op |-> "areSentencesSimilar", teacherName |-> <<>>, threw |-> FALSE,
                detail |-> [sentences |-> <<a, b>>,
                            similar |-> areSentencesSimilar(<<a, b>>)]]
    /\ UNCHANGED <<analyses, localStorage, now, db, ui, gen>>

NextSimilar == \E a, b \in ComparedSentences : CompareSentences(a, b)

SpecSimilar == InitStore /\ [][NextSimilar]_vars

(***************************************************************************)
(* The whole application for one teacher: samples are saved and analysed,  *)
(* the store is read, exported and cleared, and letters are generated,     *)
(* in any order.                                                           *)
(***************************************************************************)
SampleAnswerA == <<"m", ".">>
SampleAnswerB == <<" ", "n", ".">>

SystemAnswers ==
    {FailResponse,
     JsonResponse([EmptyCategories EXCEPT !["endorsement"] = <<SampleAnswerA>>]),
     JsonResponse([EmptyCategories EXCEPT !["endorsement"] = <<SampleAnswerB>>])}

SystemLabels ==
    {LabelResponse("fail", <<>>, <<>>),
     LabelResponse("array", <<"endorsement", "commentary">>, <<>>)}

Init == InitStore

Next ==
    \/ Tick
    \/ SaveWritingSample(TeacherAB, SamplePair)
    \/ \E r \in SystemAnswers : AnalyzeSample(TeacherAB, SamplePair, r)
    \/ GetCategories(TeacherAB)
    \/ ExportCategories(TeacherAB)
    \/ ClearCategories(TeacherAB)
    \/ EditStudentNotes("studentName", <<"J">>)
    \/ GenerateStart(TeacherAB)
    \/ GenerateGetSample
    \/ GenerateExtractPatterns
    \/ \E r \in SystemLabels : GenerateCategorized(r)
    \/ GeneratePersonalized(FALSE, <<"Dear Admissions Committee, ...">>)
    \/ GeneratePersonalized(TRUE, <<>>)

Spec == Init /\ [][Next]_vars

(***************************************************************************)
(* Analyses run from two pages of the app at once. Each page runs the code *)
(* on its own event loop against the shared localStorage: inside one page  *)
(* storeAndAppendCategories is a synchronous block, but nothing orders one *)
(* page's getItem and setItem against the calls of the other page.         *)
(***************************************************************************)
\* page w: analyzeSample(sample, teacherName) sends its prompt
AnalysisCalls(w, teacherName, sample) ==
    /\ analyses[w].pc = "idle"
    /\ analyses' = [analyses EXCEPT ![w] = [pc |-> "calling", teacherName |-> teacherName,
                                            sample |-> sample]]
    /\ UNCHANGED <<localStorage, now, db, ui, gen, last>>

\* page w: generateText ends; on a parsed answer storeAndAppendCategories
\* reads the owner's item (localStorage.getItem, JSON.parse)
AnalysisReads(w, response) ==
    LET a == analyses[w]
        parsed == parseAnalysisResponse(response)
    IN
    /\ a.pc = "calling"
    /\ IF response.kind = "fail" \/ parsed.threw
       THEN /\ analyses' = [analyses EXCEPT ![w] = [pc |-> "idle"]]
            /\ last' = [op |-> "analyzeSample", teacherName |-> a.teacherName,
                        threw |-> TRUE, detail |-> [page |-> w]]
       ELSE /\ analyses' = [analyses EXCEPT ![w] =
                               [pc |-> "merging", teacherName |-> a.teacherName,
                                sample |-> a.sample, newCategories |-> parsed.value,
                                existingCategories |->
                                    getCategories(localStorage, a.teacherName)]]
            /\ UNCHANGED last
    /\ UNCHANGED <<localStorage, now, db, ui, gen>>

\* page w: storeAndAppendCategories merges into what it read and writes the
\* item (localStorage.setItem); saveAnalysisToDatabase; analyzeSample returns
AnalysisWrites(w) ==
    LET a == analyses[w]
        m == MergeCategories(a.existingCategories, a.newCategories)
        ls == IF m.threw THEN localStorage
              ELSE SetItem(SetItem(localStorage, getCategoryStorageKey(a.teacherName),
                                   JSONStringify(m.mergedCategories)),
                           sampleKey(a.teacherName, now), RawText(a.sample))
    IN
    /\ a.pc = "merging"
    /\ localStorage' = ls
    /\ db' = saveAnalysisToDatabase(db, a.teacherName, now)
    /\ analyses' = [analyses EXCEPT ![w] = [pc |-> "idle"]]
    /\ last' = [op |-> "analyzeSample", teacherName |-> a.teacherName, threw |-> FALSE,
                detail |-> [page |-> w,
                            snapshot |-> a.existingCategories,
                            before |-> getCategories(localStorage, a.teacherName),
                            after |-> getCategories(ls, a.teacherName)]]
    /\ UNCHANGED <<now, ui, gen>>

NextPages ==
    \/ \E w \in Pages : AnalysisCalls(w, TeacherAB, SamplePair)
    \/ \E w \in Pages, r \in SystemAnswers : AnalysisReads(w, r)
    \/ \E w \in Pages : AnalysisWrites(w)

SpecPages == InitStore /\ [][NextPages]_vars

(***************************************************************************)
(* The Writing Samples panel: saving a sample analyses it, a listed sample *)
(* that is not marked can be analysed by hand, and the list is reloaded    *)
(* after each. Date.now() may move on while the model call is awaited.     *)
(***************************************************************************)
\* dbStorage.updateUserInputMetadata(id, {analyzed, originalSampleId, ...}):
\* the keys are merged into the metadata of the record `id`
updateUserInputMetadata(dbv, id, originalSampleId) ==
    [dbv EXCEPT ![id].originalSampleId = originalSampleId]

\* the ids of the teacher's records of the type
IdsByType(dbv, teacherName, type) ==
    {id \in DOMAIN dbv : dbv[id].type = type /\ dbv[id].teacherName = teacherName}

\* loadSavedSamples: the teacher's samples, each with its `analyzed` mark
loadSavedSamples(dbv, teacherName) ==
    LET analyzedSampleIds ==
            {dbv[a].originalSampleId : a \in IdsByType(dbv, teacherName, "sample-analysis")}
                \ {<<>>}
    IN [id \in IdsByType(dbv, teacherName, "writing-sample") |-> id \in analyzedSampleIds]

\* TeacherSelector.analyzeSample(sampleId, sampleContent) with the model call
\* answering `response` at time ts, then the reload of the list
AnalyzeAndReload(op, sampleId, dbv, teacherName, response, ts) ==
    LET r == analyzeSample(localStorage, dbv, ts, dbv[sampleId].content, teacherName, response)
        updated == updateUserInputMetadata(r.db, sampleId, sampleId)
    IN
    /\ now' = ts
    /\ localStorage' = r.ls
    /\ db' = IF r.threw THEN dbv ELSE updated
    /\ last' = [op |-> op, teacherName |-> teacherName, threw |-> r.threw,
                detail |-> [sampleId |-> sampleId,
                            savedSamples |-> IF r.threw THEN <<>>
                                             ELSE loadSavedSamples(updated, teacherName)]]
    /\ UNCHANGED <<ui, gen, analyses>>

\* WritingSampleInput.handleSave: onSave(sample), then the latest sample of
\* the teacher is analysed
HandleSave(teacherName, sample, response, ts) ==
    /\ ts \in now..MaxClock
    /\ AnalyzeAndReload("handleSave", <<"sample-", TsText(now)>>,
                        saveUserInput(db, <<"sample-", TsText(now)>>,
                                      UserInput("writing-sample", teacherName, sample)),
                        teacherName, response, ts)

\* WritingSampleInput.handleManualAnalysis: the Analyze button of a listed
\* sample, shown while the sample is not marked as analyzed
HandleManualAnalysis(teacherName, sampleId, response, ts) ==
    /\ ts \in now..MaxClock
    /\ sampleId \in IdsByType(db, teacherName, "writing-sample")
    /\ ~loadSavedSamples(db, teacherName)[sampleId]
    /\ AnalyzeAndReload("handleManualAnalysis", sampleId, db, teacherName, response, ts)

\* the ids a sample saved within the clock's range can have
SampleIds == {<<"sample-", TsText(t)>> : t \in 0..MaxClock}

NextSamples ==
    \/ Tick
    \/ \E r \in SystemAnswers, ts \in 0..MaxClock : HandleSave(TeacherAB, SamplePair, r, ts)
    \/ \E id \in SampleIds, r \in SystemAnswers, ts \in 0..MaxClock :
           HandleManualAnalysis(TeacherAB, id, r, ts)

SpecSamples == InitStore /\ [][NextSamples]_vars

(***************************************************************************)
(* Claims about the analyzer and the Category Store.                       *)
(***************************************************************************)
StoredCategories == getCategories(localStorage, TeacherAB)

Resubmitted == last.op = "analyzeSample" /\ last.detail.n = 2

\* C1 - merge idempotence: after the same batch has been merged into the
\* owner's store a second time, the stored categories equal what the first
\* merge left.
C1_MergeIdempotent ==
    Resubmitted => getCategories(localStorage, last.teacherName) = last.detail.once

\* C1 witness: a batch that added a sentence to a store already holding one has
\* been merged a second time.
C1_Witness ==
    /\ Resubmitted
    /\ ~last.threw
    /\ Total(last.detail.before) > 0
    /\ Total(last.detail.once) > Total(last.detail.before)

\* C3 - no duplicates: from the empty store on, no two entries of the owner's
\* store, in one category or in two, have the same trimmed text.
C3_NoDuplicates ==
    LET flat == Flatten(StoredCategories, 1) IN
    \A i, j \in 1..Len(flat) : i /= j => Trim(flat[i]) /= Trim(flat[j])

\* C3 witness: a batch of two entries has been merged and left a single
\* sentence in the store (the batch repeated a sentence).
C3_Witness ==
    /\ last.op = "analyzeSample"
    /\ ~last.threw
    /\ last.detail.size = 2
    /\ last.detail.added = 1
    /\ Total(StoredCategories) = 1

Returned == last.op = "analyzeSample" /\ ~last.threw

SentenceCount == Len(SplitSentences(last.detail.sample))

\* the answer lists each sentence of the passage once, as matched
CompleteAnswer(obj, sample) ==
    LET listed == Flatten([c \in Categories |-> IF obj[c] = NotArray THEN <<>> ELSE obj[c]], 1)
        sentences == SplitSentences(sample)
    IN  /\ Len(listed) = Len(sentences)
        /\ \E f \in Orderings(1..Len(sentences)) :
               \A i \in 1..Len(sentences) : listed[i] = sentences[f[i]]

C5_ThrowsOnlyOnCallFailure ==
    (last.op = "analyzeSample" /\ last.detail.response.kind /= "fail") => ~last.threw

\* C6 - after clearCategories(owner) storage holds neither the owner's
\* categories entry nor any sample snapshot of the owner.
C6_ClearRemovesEverything ==
    last.op = "clearCategories" =>
        \A k \in DOMAIN localStorage :
            /\ k /= getCategoryStorageKey(last.teacherName)
            /\ ~StartsWith(k, sampleKeyPrefix(last.teacherName))

(***************************************************************************)
(* Claims about the store over whole runs, and about letter generation.    *)
(***************************************************************************)
\* the number of sentences stored for TeacherAB in category c
StoredCount(ls, c) == Len(getCategories(ls, TeacherAB)[c])

NoCategoryShrinks == \A c \in Categories : StoredCount(localStorage', c) >= StoredCount(localStorage, c)

\* C2: in every step that is not a clear (an analysis with its merge, a read,
\* an export, a save, any step of a letter generation) no category of the
\* teacher's store loses a sentence.
C2_OnlyClearShrinks == [][ClearCategories(TeacherAB) \/ NoCategoryShrinks]_vars

\* a store that an analysis has filled while a letter generation is under way
C2_Witness ==
    /\ gen.pc = "personalize"
    /\ last.op = "analyzeSample"
    /\ last.detail.added > 0
    /\ StoredCount(localStorage, "endorsement") = 2
    /\ \E k \in DOMAIN db : db[k].type = "generated-content"

\* the assembly of a draft has happened: gen holds its inputs and its output
Assembled == gen.pc = "personalize"

ItemCount == Len(gen.templateStructure)

StoreIsEmptyFor(i) ==
    Len(SentencesInCategory(gen.categorizedSentences, gen.templateStructure[i].category)) = 0

\* item i is substituted from the opening or closing patterns
PatternApplies(i) ==
    \/ gen.templateStructure[i].position = "opening" /\ Len(gen.patterns.openingSentences) > 0
    \/ gen.templateStructure[i].position = "closing" /\ Len(gen.patterns.closingSentences) > 0

\* C7 as stated: every template item whose category has no sentence in the
\* store has its original sentence in the draft, whatever its position and
\* whatever the patterns are.
C7_OriginalKeptAtAnyPosition ==
    Assembled =>
        \A i \in 1..ItemCount :
            StoreIsEmptyFor(i) =>
                Contains(gen.draftLetter, gen.templateStructure[i].originalSentence)

\* C7: a template item whose category has no sentence in the store, and whose
\* position is not served by a non-empty pattern list, is in the draft as its
\* original sentence, at its own index.
C7_OriginalKeptWithoutPattern ==
    Assembled =>
        \A i \in 1..ItemCount :
            (StoreIsEmptyFor(i) /\ ~PatternApplies(i)) =>
                /\ gen.replaced[i] = gen.templateStructure[i].originalSentence
                /\ Contains(gen.draftLetter, gen.templateStructure[i].originalSentence)

\* a middle item of an empty category kept, next to an opening item replaced
C7_Witness ==
    /\ Assembled
    /\ \E i \in 1..ItemCount :
           /\ StoreIsEmptyFor(i) /\ ~PatternApplies(i)
           /\ gen.templateStructure[i].position = "middle"
    /\ \E i \in 1..ItemCount :
           /\ StoreIsEmptyFor(i) /\ PatternApplies(i)
           /\ gen.replaced[i] /= gen.templateStructure[i].originalSentence

\* the rule of C8 for item i
FollowsAssemblyRule(i) ==
    LET item == gen.templateStructure[i]
        stored == SentencesInCategory(gen.categorizedSentences, item.category)
    IN IF item.position = "opening" /\ Len(gen.patterns.openingSentences) > 0
       THEN gen.replaced[i] \in Range(gen.patterns.openingSentences)
       ELSE IF item.position = "closing" /\ Len(gen.patterns.closingSentences) > 0
       THEN gen.replaced[i] \in Range(gen.patterns.closingSentences)
       ELSE IF Len(stored) > 0
       THEN gen.replaced[i] \in Range(stored)
       ELSE gen.replaced[i] = item.originalSentence

\* C8: the draft of a template of n items is n sentences joined by spaces,
\* sentence i being an opening pattern, a closing pattern, a stored sentence
\* of the item's category or the item's original sentence, as the rule says.
C8_AssemblyRule ==
    Assembled =>
        /\ ItemCount > 0
        /\ Len(gen.replaced) = ItemCount
        /\ gen.draftLetter = Join(gen.replaced, 1)
        /\ \A i \in 1..ItemCount : FollowsAssemblyRule(i)

\* C9 as stated: a request made when the teacher has no writing sample ends
\* without an error and shows the apology as its result.
C9_NoSamplesShowsApology ==
    (last.op = "generateContent" /\ last.detail.samples = 0) =>
        /\ ~last.threw
        /\ last.detail.result = ApologyText
        /\ ui.generatedContent = ApologyText

\* the teacher of the request has no writing sample when the service looks
NoSamplesFound ==
    gen.pc = "getSample" /\ Len(getTeacherWritingSamples(db, gen.teacherName)) = 0

\* C9: when the teacher has no writing sample the service throws "No writing
\* samples found for template" before any model call; the application catches
\* it, reports "Error generating content", ends loading, leaves the displayed
\* letter as it was and saves no generated record.
C9_NoSamplesReportsError ==
    [][NoSamplesFound =>
          /\ last'.op = "generateContent" /\ last'.threw
          /\ last'.detail.error = "No writing samples found for template"
          /\ last'.detail.calls = 0
          /\ ui'.statusMessage = "Error generating content"
          /\ ~ui'.isLoading
          /\ ui'.generatedContent = ui.generatedContent
          /\ ui'.generatedContent /= ApologyText
          /\ db' = db
          /\ gen'.pc = "idle"]_vars

C9_Witness ==
    /\ last.op = "generateContent" /\ last.threw
    /\ last.detail.samples = 0
    /\ ui.statusMessage = "Error generating content"

\* the chosen sample has no sentence, so the template is empty
EmptyTemplateChosen ==
    gen.pc = "patterns" /\ Len(SplitSentences(gen.templateSample)) = 0

\* C10: when the chosen sample yields no sentence the request returns the
\* apology as its letter: nothing is thrown, no model call is made, and the
\* apology is saved and shown like any letter.
C10_EmptyTemplateApology ==
    [][EmptyTemplateChosen =>
          /\ last'.op = "generateContent" /\ ~last'.threw
          /\ last'.detail.result = ApologyText
          /\ last'.detail.calls = 0
          /\ ui'.generatedContent = ApologyText
          /\ ~ui'.isLoading
          /\ gen'.pc = "idle"]_vars

C10_Witness ==
    /\ last.op = "generateContent" /\ ~last.threw
    /\ last.detail.samples > 0
    /\ last.detail.templateLength = 0
    /\ last.detail.result = ApologyText
    /\ ui.generatedContent = ApologyText

\* the personalization call was issued in the request that `last` reports
PersonalizationReached == last.op = "generateContent" /\ last.detail.calls = 2

\* C11: once the personalization call is issued the stage does not throw: the
\* request ends with the model's text or, for an empty text, the fallback.
C11_PersonalizeNeverThrows ==
    PersonalizationReached =>
        /\ ~last.threw
        /\ last.detail.result \in (PersonalizedTexts \ {<<>>}) \cup {PersonalizeFallbackText}

\* the request has passed into the template, assembly or personalization stage
InCoreStages == gen.pc \in {"patterns", "categorize", "personalize"}

\* every StudentInfo field is non-empty and three character words are filled in
AllFieldsFilled(info) ==
    /\ \A f \in DOMAIN info \ {"characterWords", "customCourse"} : Trim(info[f]) /= <<>>
    /\ FilledWords(info.characterWords) = 3

\* C12: a generation request is in the template, assembly or personalization
\* stage only with a StudentInfo whose fields are all non-empty and whose
\* three character words are filled in.
C12_OnlyValidInfoGenerates == InCoreStages => AllFieldsFilled(gen.studentInfo)

(***************************************************************************)
(* Claims about the Template Builder.                                      *)
(***************************************************************************)
\* categorizeTemplate has returned a template for a sample with sentences
Labelled == last.op = "categorizeTemplate" /\ last.detail.called /\ ~last.threw

TemplateOf == last.detail.templateStructure

\* the tag the rule gives to the item at index i (from 0) of n
RulePosition(i, n) ==
    IF i = 0 THEN "opening"
    ELSE IF n >= 3 THEN (IF i = n - 2 \/ i = n - 1 THEN "closing" ELSE "middle")
    ELSE IF i = n - 1 THEN "closing" ELSE "middle"

\* C13: in a template of n items index 0 is 'opening'; for n >= 3 the indices
\* n-2 and n-1 are 'closing'; for n < 3 only the final index is (a single
\* item being 'opening'); every other index is 'middle'.
C13_PositionTagging ==
    Labelled =>
        \A i \in 1..Len(TemplateOf) :
            TemplateOf[i].position = RulePosition(i - 1, Len(TemplateOf))

\* a template of 5 items tagged opening, middle, middle, closing, closing
C13_Witness ==
    /\ Labelled
    /\ Len(TemplateOf) = 5
    /\ [i \in 1..5 |-> TemplateOf[i].position]
           = <<"opening", "middle", "middle", "closing", "closing">>

\* C17: whenever the labelling call returns, whatever it answers, the
\* template has one item per sentence of the sample, in sentence order; for
\* a JSON array of labels item i has label i, 'commentary' where the array
\* has no label for it, and labels beyond the last sentence are dropped.
C17_AlwaysAligned ==
    (last.op = "categorizeTemplate" /\ last.detail.called /\ last.detail.response.kind /= "fail") =>
        LET sentences == SplitSentences(gen.templateSample)
            labels == last.detail.response.labels
        IN  /\ ~last.threw
            /\ Len(TemplateOf) = Len(sentences)
            /\ \A i \in 1..Len(sentences) :
                   TemplateOf[i].originalSentence = Trim(sentences[i])
            /\ last.detail.response.kind = "array" =>
                   \A i \in 1..Len(sentences) :
                       TemplateOf[i].category =
                           IF i <= Len(labels) /\ labels[i] /= ""
                           THEN labels[i] ELSE "commentary"

\* an array of one label padded to a template of three items
C17_Witness ==
    /\ Labelled
    /\ Len(TemplateOf) = 3
    /\ last.detail.response.kind = "array"
    /\ Len(last.detail.response.labels) = 1
    /\ TemplateOf[1].category = "endorsement"
    /\ TemplateOf[3].category = "commentary"

(***************************************************************************)
(* Claims about the Pattern Extractor and the similarity test.             *)
(***************************************************************************)
Extracted == last.op = "extractCommonPatterns"

Opening == last.detail.patterns.openingSentences

Closing == last.detail.patterns.closingSentences

\* the sentences of sample k of the corpus, trimmed
SentencesOf(k) == TrimAll(SplitSentences(last.detail.contents[k]))

\* C14: with no sample both pattern lists are empty; with one sample the
\* opening list is its first sentence and the closing list its last, each
\* entry being a sentence of the sample.
C14_BoundaryCases ==
    Extracted =>
        /\ Len(last.detail.contents) = 0 => (Opening = <<>> /\ Closing = <<>>)
        /\ Len(last.detail.contents) = 1 =>
               /\ Len(Opening) = 1 /\ Len(Closing) = 1
               /\ Opening[1] \in Range(SentencesOf(1))
               /\ Closing[1] \in Range(SentencesOf(1))
               /\ Opening[1] = SentencesOf(1)[1]
               /\ Closing[1] = SentencesOf(1)[Len(SentencesOf(1))]

\* C15: for two samples of the same content of n sentences the opening list
\* is the first n \div 2 sentences and the closing list the last n \div 2.
C15_IdenticalSamplesFullPattern ==
    (/\ Extracted
     /\ Len(last.detail.contents) = 2
     /\ last.detail.contents[1] = last.detail.contents[2]) =>
        LET sentences == SentencesOf(1)
            n == Len(sentences)
        IN  /\ Opening = SubSeq(sentences, 1, n \div 2)
            /\ Closing = SubSeq(sentences, n - (n \div 2) + 1, n)

\* the samples of the corpus that have a sentence
WithSentences == {k \in 1..Len(last.detail.contents) : Len(SentencesOf(k)) > 0}

\* C19: the scan bound is the least, over the samples that have a sentence,
\* of half the sentence count rounded down, in whatever order they are stored.
C19_ScanBoundIsMinimum ==
    (Extracted /\ last.detail.scanned /\ WithSentences /= {}) =>
        /\ \A k \in WithSentences : last.detail.maxOpeningPatternLength <= Len(SentencesOf(k)) \div 2
        /\ \E k \in WithSentences : last.detail.maxOpeningPatternLength = Len(SentencesOf(k)) \div 2

\* C20: for two or more samples the opening and the closing list together
\* are no longer than the shortest sample that has a sentence, so no sentence
\* position of a sample serves both lists.
C20_WindowsDoNotOverlap ==
    (Extracted /\ Len(last.detail.contents) >= 2) =>
        \A k \in WithSentences : Len(Opening) + Len(Closing) <= Len(SentencesOf(k))

Compared == last.op = "areSentencesSimilar"

Longer == IF Len(last.detail.sentences[1]) >= Len(last.detail.sentences[2]) THEN Len(last.detail.sentences[1]) ELSE Len(last.detail.sentences[2])

Shorter == IF Len(last.detail.sentences[1]) >= Len(last.detail.sentences[2]) THEN Len(last.detail.sentences[2]) ELSE Len(last.detail.sentences[1])

C18_StoreWellFormed ==
    \A c \in Categories :
        \A i \in 1..Len(StoredCategories[c]) :
            /\ IsString(StoredCategories[c][i])
            /\ StoredCategories[c][i] /= <<>>
            /\ Trim(StoredCategories[c][i]) = StoredCategories[c][i]

\* the samples that have a sentence, as trimmed sentence lists, in stored order
HasSentence(sentences) == Len(sentences) > 0

Parsed ==
    SelectSeq([k \in 1..Len(last.detail.contents) |-> SentencesOf(k)], HasSentence)

\* the sentences at position p (from 0) of these samples pass the similarity test
SimilarAt(p) == areSentencesSimilar([k \in 1..Len(Parsed) |-> At(Parsed[k], p)])

\* the first position below the scan bound that is not similar, or the bound
FirstBreak ==
    LET bound == last.detail.maxOpeningPatternLength
        breaks == {p \in 0..(bound - 1) : ~SimilarAt(p)}
    IN  IF breaks = {} THEN bound
        ELSE CHOOSE p \in breaks : \A q \in breaks : p <= q

\* C21: with two or more samples the opening list is the sentences of the
\* first sample (that has any) at the positions before the first position,
\* below the scan bound, where the samples' sentences are not similar; it is
\* empty when fewer than two samples have a sentence.
C21_OpeningIsPrefix ==
    (Extracted /\ Len(last.detail.contents) >= 2) =>
        IF Len(Parsed) < 2 THEN Opening = <<>>
        ELSE Opening = SubSeq(Parsed[1], 1, FirstBreak)

\* a scan bound of 2 where the scan took position 0 and stopped at position 1
C21_Witness ==
    /\ Extracted
    /\ Len(Parsed) = 2
    /\ last.detail.maxOpeningPatternLength = 2
    /\ FirstBreak = 1
    /\ Len(Opening) = 1

\* C22: every item of a template categorizeTemplate returns has one of the
\* five category names, whatever the labelling call answered.
C22_CanonicalCategories ==
    Labelled => \A i \in 1..Len(TemplateOf) : TemplateOf[i].category \in Categories

\* the labels the claimed chain of fallbacks gives for n sentences: those of
\* the lines of the text when there are any, else those of the positions
ChainLabels(lines, n) ==
    IF LabelsFromLines(lines) /= <<>>
    THEN [i \in 1..n |-> IF i <= Len(LabelsFromLines(lines))
                         THEN LabelsFromLines(lines)[i] ELSE "commentary"]
    ELSE [i \in 1..n |-> PositionalLabel(i - 1, n)]

\* C23: when the bracketed array of the answer cannot be parsed the labels
\* are taken line by line, and when the lines give no label they are taken
\* from the positions, before any padding with 'commentary'.
C23_FallbackChain ==
    (Labelled /\ last.detail.response.kind \in {"badjson", "lines", "notext"}) =>
        [i \in 1..Len(TemplateOf) |-> TemplateOf[i].category]
            = ChainLabels(last.detail.response.lines, Len(TemplateOf))


(***************************************************************************)
(* C24: within one generation request the model is called at most twice    *)
(* and in sequence: the personalization call is issued only by the step    *)
(* that ends the template-categorization call with an answer, so the two   *)
(* are never in flight together, and a call that failed is not issued      *)
(* again: the request ends with the calls made so far.                     *)
(***************************************************************************)
\* the model calls the request in progress has issued
CallsOf(g) == IF g.pc = "idle" THEN 0 ELSE g.calls

\* the model call in flight: 1 the categorization, 2 the personalization
InFlight(g) == IF g.pc = "categorize" THEN 1 ELSE IF g.pc = "personalize" THEN 2 ELSE 0

C24_CallsInSequence ==
    [][/\ CallsOf(gen') <= 2
       /\ InFlight(gen') \in {0, CallsOf(gen')}
       /\ (gen.pc /= "idle" /\ gen'.pc /= "idle") =>
              /\ CallsOf(gen') \in {CallsOf(gen), CallsOf(gen) + 1}
              /\ (CallsOf(gen') = 1 /\ CallsOf(gen) = 0) => gen.pc = "patterns"
              /\ (CallsOf(gen') = 2 /\ CallsOf(gen) = 1) => gen.pc = "categorize"
       /\ (InFlight(gen) /= 0 /\ last' /= last /\ last'.op = "generateContent" /\ last'.threw) =>
              /\ gen'.pc = "idle"
              /\ last'.detail.calls = InFlight(gen)]_vars

\* the categorization call failed and the request ended after that one call
C24_Witness ==
    /\ last.op = "generateContent"
    /\ last.threw
    /\ last.detail.error = "Text generation failed"
    /\ last.detail.calls = 1
    /\ gen.pc = "idle"


(***************************************************************************)
(* C25: two analyses for the same owner that run at once can both read the *)
(* store before either writes, and the later write then drops what the     *)
(* earlier one added. A write drops a stored sentence only in that case:   *)
(* when the store changed between the writer's read and its write.         *)
(***************************************************************************)
\* an analysis ended by writing its merge
MergeWritten == last.op = "analyzeSample" /\ ~last.threw

\* the write dropped a sentence that was stored when it happened
DropsStored ==
    \E c \in Categories : \E i \in 1..Len(last.detail.before[c]) :
        last.detail.before[c][i] \notin Range(last.detail.after[c])

SampleAnalysed ==
    last.op \in {"handleSave", "handleManualAnalysis"} /\ ~last.threw

C26_AnalyzedMarksTheSample ==
    SampleAnalysed =>
        /\ last.detail.savedSamples[last.detail.sampleId]
        /\ \A id \in DOMAIN last.detail.savedSamples :
               last.detail.savedSamples[id] => db[id].originalSampleId = id


(***************************************************************************)
(* C27: the merge is all-or-nothing. After analyzeSample the owner's       *)
(* stored categories are the value before the merge, when the model call   *)
(* or the parse failed or the batch holds an entry that is not a string,   *)
(* and otherwise the complete merge: what was stored, in place, followed   *)
(* by every new sentence of the batch. Part of a batch is never stored.    *)
(***************************************************************************)
\* the sentences stored under any category
AllOf(cats) == UNION {Range(cats[c]) : c \in Categories}

HasNonString(batch) ==
    \E c \in Categories : \E i \in 1..Len(batch[c]) : ~IsString(batch[c][i])

CompleteMerge(before, batch, after) ==
    /\ \A c \in Categories :
           /\ Len(after[c]) >= Len(before[c])
           /\ SubSeq(after[c], 1, Len(before[c])) = before[c]
    /\ \A c \in Categories : \A i \in 1..Len(batch[c]) : Trim(batch[c][i]) \in AllOf(after)
    /\ AllOf(after) \subseteq
           AllOf(before) \cup {Trim(s) : s \in AllOf(batch)}

C27_MergeAllOrNothing ==
    (last.op = "analyzeSample" /\ last.detail.n = 1) =>
        IF last.threw \/ HasNonString(last.detail.value)
        THEN last.detail.once = last.detail.before
        ELSE CompleteMerge(last.detail.before, last.detail.value, last.detail.once)

\* a batch with a new sentence and an entry that is not a string left the
\* store as it was
C27_Witness ==
    /\ last.op = "analyzeSample"
    /\ last.detail.n = 1
    /\ ~last.threw
    /\ HasNonString(last.detail.value)
    /\ \E s \in AllOf(last.detail.value) :
           IsString(s) /\ Trim(s) \notin AllOf(last.detail.before)
    /\ last.detail.once = last.detail.before
    /\ AllOf(last.detail.before) /= {}


(***************************************************************************)
(* C28: a generated-content record is written and the displayed letter     *)
(* replaced only by the step in which generateContent returns a letter.    *)
(* When a stage throws, the request ends with the database and the         *)
(* displayed letter as they were; either way isLoading is false again.     *)
(***************************************************************************)
\* the step ends the generation request
RequestEnds == gen.pc /= "idle" /\ gen'.pc = "idle"

\* the generated-content records are the same before and after the step
GeneratedUnchanged ==
    \A id \in DOMAIN db' :
        db'[id].type = "generated-content" => (id \in DOMAIN db /\ db[id] = db'[id])

C28_RecordOnlyOnReturn ==
    [][IF RequestEnds
       THEN /\ last'.op = "generateContent"
            /\ ~ui'.isLoading
            /\ IF last'.threw
               THEN /\ db' = db
                    /\ ui'.generatedContent = ui.generatedContent
               ELSE /\ <<"generated-", TsText(now)>> \in DOMAIN db'
                    /\ db'[<<"generated-", TsText(now)>>] =
                           UserInput("generated-content", gen.teacherName,
                                     last'.detail.result)
                    /\ ui'.generatedContent = last'.detail.result
       ELSE /\ GeneratedUnchanged
            /\ ui'.generatedContent = ui.generatedContent]_vars

\* a request failed in its personalization call while an earlier letter is
\* on display: the letter and its record are still there
C28_Witness ==
    /\ last.op = "generateContent"
    /\ last.threw
    /\ last.detail.calls = 2
    /\ gen.pc = "idle"
    /\ ~ui.isLoading
    /\ ui.generatedContent /= <<>>
    /\ \E id \in DOMAIN db : db[id].type = "generated-content"


(***************************************************************************)
(* C29: when the teacher has two or more samples of which fewer than two   *)
(* have a sentence, extractCommonPatterns returns no opening and no        *)
(* closing sentence (the first/last sentence rule of a single sample is    *)
(* not applied), and the assembler fills opening and closing items like    *)
(* the others: a stored sentence of the item's category or the original.   *)
(***************************************************************************)
\* the samples of the request's teacher
RequestSamples == getTeacherWritingSamples(db, gen.teacherName)

\* two or more samples, fewer than two of them with a sentence
FewWithSentences ==
    /\ Len(RequestSamples) >= 2
    /\ Cardinality({k \in 1..Len(RequestSamples) :
                        Len(SplitSentences(RequestSamples[k])) > 0}) < 2

C29_NoPatternsFromOneParsedSample ==
    (gen.pc \in {"categorize", "personalize"} /\ FewWithSentences) =>
        /\ gen.patterns.openingSentences = <<>>
        /\ gen.patterns.closingSentences = <<>>
        /\ Assembled =>
               \A i \in 1..ItemCount :
                   gen.replaced[i] \in
                       Range(SentencesInCategory(gen.categorizedSentences,
                                                 gen.templateStructure[i].category))
                           \cup {gen.templateStructure[i].originalSentence}

\* a draft whose opening item was replaced by a stored sentence of its
\* category, the teacher having one sample with sentences and one without
C29_Witness ==
    /\ Assembled
    /\ FewWithSentences
    /\ \E i \in 1..ItemCount :
           /\ gen.templateStructure[i].position = "opening"
           /\ gen.replaced[i] /= gen.templateStructure[i].originalSentence
    /\ \E i \in 1..ItemCount : gen.templateStructure[i].position = "closing"

====
